---- MODULE Spec2Model ----
(***************************************************************************)
(* Delegation tracking in src/src/08-multi-agent-orchestration.ts: the     *)
(* run() event loop, its toolRuns registry, the per-task interval timers   *)
(* (startTicker / finishTicker) and the text normalisation extractText.    *)
(*                                                                         *)
(* Strings that the code transforms are sequences of one-character         *)
(* strings, so that trim and join are computed and not assumed.            *)
(***************************************************************************)
EXTENDS Integers, Sequences, FiniteSets, TLC

(***************************************************************************)
(* Bounds of the model.                                                    *)
(***************************************************************************)
\* number of entry objects the run may allocate (tool_use blocks with an id)
MaxAllocs == 2
\* number of clock advances of ClockStep milliseconds
MaxClockSteps == 1
\* longest generated string and longest generated sequence of the payloads
\* handed to the normalisation on its own
MaxStrLen == 2
MaxItems == 2
\* number of steps of a recorded run
MaxRecorded == 5
\* number of entries of the tool usage log
MaxLogEntries == 2
\* length of a text given to printWithDelay
MaxTextLen == 4
(***************************************************************************)
(* Program constants.                                                      *)
(***************************************************************************)
\* setInterval(..., 5000)
TickInterval == 5000
\* context.slice(0, 90)
ContextLimit == 90

\* milliseconds by which one clock advance moves Date.now(): the clock is
\* observed on the grid of the interval period
ClockStep == TickInterval

\* the value `undefined` of an optional string
Undefined == "<undefined>"
\* the fallback label of the lookups
FallbackLabel == "subagent"

Ids == {"t1", "t2"}
SubagentTypes == {"researcher"}
ToolNames == {"Task"}

(***************************************************************************)
(* Strings as character sequences.                                         *)
(***************************************************************************)
IsSpace(c) == c = " "

RECURSIVE TrimStart(_)
TrimStart(s) ==
    IF s = <<>> THEN <<>>
    ELSE IF IsSpace(Head(s)) THEN TrimStart(Tail(s))
    ELSE s

RECURSIVE TrimEnd(_)
TrimEnd(s) ==
    IF s = <<>> THEN <<>>
    ELSE IF IsSpace(s[Len(s)]) THEN TrimEnd(SubSeq(s, 1, Len(s) - 1))
    ELSE s

\* String.prototype.trim
Trim(s) == TrimEnd(TrimStart(s))

\* Array.prototype.join(' ') over an array of strings
RECURSIVE JoinSpace(_)
JoinSpace(parts) ==
    IF parts = <<>> THEN <<>>
    ELSE IF Len(parts) = 1 THEN parts[1]
    ELSE parts[1] \o <<" ">> \o JoinSpace(Tail(parts))

(***************************************************************************)
(* Payload values (the `unknown` of extractText) as a tagged union:        *)
(*   [t |-> "string", s |-> chars]                                         *)
(*   [t |-> "object", text |-> value]    an object with a text field       *)
(*   [t |-> "array",  items |-> <<value, ...>>]                            *)
(*   [t |-> "number", s |-> digits]      String(n) is its digits           *)
(*   [t |-> "null"], [t |-> "undefined"], [t |-> "bare"] (object, no text) *)
(***************************************************************************)
VStr(s) == [t |-> "string", s |-> s]
VObj(v) == [t |-> "object", text |-> v]
VArr(items) == [t |-> "array", items |-> items]
VNum(d) == [t |-> "number", s |-> d]
VNull == [t |-> "null"]
VUndef == [t |-> "undefined"]
VBare == [t |-> "bare"]

\* String(v ?? '') for the values a text field holds in the model
StringOfText(v) ==
    IF v.t = "string" THEN v.s
    ELSE IF v.t = "number" THEN v.s
    ELSE <<>>

\* a callback that passes strings and drops the text of objects
MapEntryStringsOnly(entry) ==
    IF entry.t = "string" THEN entry.s
    ELSE <<>>

\* the callback of content.map in extractText
MapEntry(entry) ==
    IF entry.t = "string" THEN entry.s
    ELSE IF entry.t = "object" THEN StringOfText(entry.text)
    ELSE <<>>

extractText(content) ==
    IF content.t = "string" THEN Trim(content.s)
    ELSE IF content.t = "array"
         THEN Trim(JoinSpace([i \in 1..Len(content.items) |-> MapEntry(content.items[i])]))
    ELSE IF content.t = "object" THEN Trim(StringOfText(content.text))
    ELSE <<>>

\* Math.round(ms / 1000) for ms >= 0
RoundSeconds(ms) == (ms + 500) \div 1000

(***************************************************************************)
(* State.                                                                  *)
(***************************************************************************)
VARIABLES
    pc,        \* "await": suspended in for-await; "done": run() returned;
               \* "exited": process.exit(1) in the catch
    toolRuns,  \* the Map toolRuns as a set of entries, one per key
    timers,    \* every interval created by setInterval, by handle
    now,       \* Date.now()
    allocs,    \* number of entry objects created so far
    emitted,   \* the console lines written by the last step
    returned,  \* per entry object, number of 'returned after' lines written
    ev,        \* the event the last step handled: its kind and correlation id
    transcript,\* the console output of the whole run, step by step, when it
               \* is being recorded
    payload,   \* a payload value handed to the normalisation
    outcome,   \* what the normalisation made of payload
    toolUsageLog,       \* the array toolUsageLog of the hooks example
    performanceMetrics, \* the Map performanceMetrics, one record per key
    hookIn,    \* the latest hook call: the hook, its input and tool-use id
    hookOut,   \* what that call returned and the lines it wrote
    typewriter \* one call of printWithDelay: its text, its index i, its
               \* interval ("none", "live" or "cleared"), the characters
               \* written to stdout, and the numbers of runs of the callback,
               \* of clearInterval calls and of resolve() calls

\* the state of run()
trackerVars == <<pc, toolRuns, timers, now, allocs, emitted, returned, ev, transcript>>

\* the state of run() apart from the clock
runVars == <<pc, toolRuns, timers, allocs, emitted, returned, ev, transcript>>

\* the state of the normalisation on its own
textVars == <<payload, outcome>>

\* the state of the hooks
hookVars == <<toolUsageLog, performanceMetrics, hookIn, hookOut>>

\* the state of printWithDelay
typeVars == <<typewriter>>

\* the state of the other components
otherVars == <<textVars, hookVars, typeVars>>

vars == <<pc, toolRuns, timers, now, allocs, emitted, returned, ev, transcript,
          payload, outcome, toolUsageLog, performanceMetrics, hookIn, hookOut,
          typewriter>>

(***************************************************************************)
(* Console lines.  On the lines written by finishTicker and by an interval *)
(* callback, id and obj say which correlation id and which entry object    *)
(* the line was computed from; they are "" and 0 on every other line.      *)
(***************************************************************************)
Line(kind, label, text, n, id, obj) ==
    [kind |-> kind, label |-> label, text |-> text, n |-> n, id |-> id, obj |-> obj]

(***************************************************************************)
(* The Map toolRuns.                                                       *)
(***************************************************************************)
MapHas(runs, id) == \E e \in runs : e.id = id
MapGet(runs, id) == CHOOSE e \in runs : e.id = id
\* a set that appends without replacing the entry of the same key
MapSetKeepsStale(runs, e) == runs \cup {e}

MapSet(runs, e) == {x \in runs : x.id # e.id} \cup {e}
MapDelete(runs, id) == {x \in runs : x.id # id}
MapKeys(runs) == {e.id : e \in runs}

\* toolRuns.get(id)?.label
LabelOf(runs, id) == IF MapHas(runs, id) THEN MapGet(runs, id).label ELSE Undefined

\* a lookup that falls back to the empty label
LabelOrFallbackEmpty(runs, id) ==
    IF id # Undefined /\ LabelOf(runs, id) # Undefined THEN LabelOf(runs, id)
    ELSE ""

\* a lookup that falls back to the correlation id instead of 'subagent'
LabelOrFallbackUsesId(runs, id) ==
    IF id # Undefined /\ LabelOf(runs, id) # Undefined THEN LabelOf(runs, id)
    ELSE id

\* toolUseId ? toolRuns.get(toolUseId)?.label ?? 'subagent' : 'subagent'
LabelOrFallback(runs, id) ==
    IF id # Undefined /\ LabelOf(runs, id) # Undefined THEN LabelOf(runs, id)
    ELSE FallbackLabel

\* an interval is live from setInterval until clearInterval
LiveTimers(tms) == {h \in 1..Len(tms) : tms[h].live}

\* a startTicker that creates the interval and forgets `entry.ticker = ...`
startTickerNotStored(runs, tms, id, label, t) ==
    IF ~MapHas(runs, id) THEN [runs |-> runs, timers |-> tms]
    ELSE LET entry == MapGet(runs, id)
             interval == [id |-> id, label |-> label, start |-> entry.start,
                          obj |-> entry.obj, due |-> t + TickInterval, live |-> TRUE,
                          last |-> -1]
         IN [runs |-> runs, timers |-> Append(tms, interval)]

\* `last` is the elapsed value of the interval's latest line, -1 before the
\* first one
startTicker(runs, tms, id, label, t) ==
    IF ~MapHas(runs, id) THEN [runs |-> runs, timers |-> tms]
    ELSE LET entry == MapGet(runs, id)
             interval == [id |-> id, label |-> label, start |-> entry.start,
                          obj |-> entry.obj, due |-> t + TickInterval, live |-> TRUE,
                          last |-> -1]
         IN [runs |-> MapSet(runs, [entry EXCEPT !.ticker = Len(tms) + 1]),
             timers |-> Append(tms, interval)]

\* a finishTicker that forgets clearInterval
finishTickerNoClear(runs, tms, id, label, t) ==
    IF ~MapHas(runs, id) THEN [runs |-> runs, timers |-> tms, lines |-> <<>>]
    ELSE LET entry == MapGet(runs, id)
         IN [runs |-> MapDelete(runs, id),
             timers |-> tms,
             lines |-> IF label # Undefined
                       THEN <<Line("returned", label, <<>>,
                                   RoundSeconds(t - entry.start), id, entry.obj)>>
                       ELSE <<>>]

\* a finishTicker that forgets toolRuns.delete
finishTickerNoDelete(runs, tms, id, label, t) ==
    IF ~MapHas(runs, id) THEN [runs |-> runs, timers |-> tms, lines |-> <<>>]
    ELSE LET entry == MapGet(runs, id)
         IN [runs |-> runs,
             timers |-> IF entry.ticker # 0
                        THEN [tms EXCEPT ![entry.ticker].live = FALSE]
                        ELSE tms,
             lines |-> IF label # Undefined
                       THEN <<Line("returned", label, <<>>,
                                   RoundSeconds(t - entry.start), id, entry.obj)>>
                       ELSE <<>>]

\* a finishTicker that clears the interval of every entry
finishTickerClearsEveryTimer(runs, tms, id, label, t) ==
    IF ~MapHas(runs, id) THEN [runs |-> runs, timers |-> tms, lines |-> <<>>]
    ELSE LET entry == MapGet(runs, id)
         IN [runs |-> MapDelete(runs, id),
             timers |-> [h \in 1..Len(tms) |->
                            IF \E e \in runs : e.ticker = h
                            THEN [tms[h] EXCEPT !.live = FALSE]
                            ELSE tms[h]],
             lines |-> IF label # Undefined
                       THEN <<Line("returned", label, <<>>,
                                   RoundSeconds(t - entry.start), id, entry.obj)>>
                       ELSE <<>>]

\* a finishTicker that empties the whole registry (toolRuns.clear())
finishTickerClearsAll(runs, tms, id, label, t) ==
    IF ~MapHas(runs, id) THEN [runs |-> runs, timers |-> tms, lines |-> <<>>]
    ELSE LET entry == MapGet(runs, id)
         IN [runs |-> {},
             timers |-> IF entry.ticker # 0
                        THEN [tms EXCEPT ![entry.ticker].live = FALSE]
                        ELSE tms,
             lines |-> IF label # Undefined
                       THEN <<Line("returned", label, <<>>,
                                   RoundSeconds(t - entry.start), id, entry.obj)>>
                       ELSE <<>>]

\* every label of the model is a non-empty string, so `if (label)` is the
\* test label # Undefined
finishTicker(runs, tms, id, label, t) ==
    IF ~MapHas(runs, id) THEN [runs |-> runs, timers |-> tms, lines |-> <<>>]
    ELSE LET entry == MapGet(runs, id)
         IN [runs |-> MapDelete(runs, id),
             timers |-> IF entry.ticker # 0
                        THEN [tms EXCEPT ![entry.ticker].live = FALSE]
                        ELSE tms,
             lines |-> IF label # Undefined
                       THEN <<Line("returned", label, <<>>,
                                   RoundSeconds(t - entry.start), id, entry.obj)>>
                       ELSE <<>>]

\* a cleanup loop whose iteration ends after the first deletion
CleanupLoopFirstOnly(ids, runs, tms, t) ==
    IF ids = {} THEN [runs |-> runs, timers |-> tms, lines |-> <<>>]
    ELSE finishTicker(runs, tms, CHOOSE i \in ids : TRUE, Undefined, t)

\* for (const [id] of toolRuns) finishTicker(id)
RECURSIVE CleanupLoop(_, _, _, _)
CleanupLoop(ids, runs, tms, t) ==
    IF ids = {} THEN [runs |-> runs, timers |-> tms, lines |-> <<>>]
    ELSE LET id == CHOOSE i \in ids : TRUE
             r == finishTicker(runs, tms, id, Undefined, t)
             rest == CleanupLoop(ids \ {id}, r.runs, r.timers, t)
         IN [runs |-> rest.runs, timers |-> rest.timers, lines |-> r.lines \o rest.lines]

\* number of 'returned after' lines per entry object among some lines
CountReturned(lines, ret) ==
    [o \in DOMAIN ret |->
        ret[o] + Cardinality({i \in 1..Len(lines) : lines[i].kind = "returned" /\ lines[i].obj = o})]

\* the record kept in ev; id is "" when the event carries no correlation id
Event(kind, id) == [kind |-> kind, id |-> IF id = Undefined THEN "" ELSE id]

\* console.error(...) then process.exit(1)
ErrorLine == Line("error", "", <<>>, 0, "", 0)

\* the transcript after a step that handled event e and wrote lines
Transcript(tr, e, lines) ==
    IF tr.recording THEN [tr EXCEPT !.steps = Append(@, [ev |-> e, lines |-> lines])]
    ELSE tr

\* outcome before the normalisation has run
NoOutcome == [done |-> FALSE]

TypeOK ==
    /\ pc \in {"await", "done", "exited"}
    /\ allocs \in 0..MaxAllocs
    /\ now \in 0..(MaxClockSteps * ClockStep)
    /\ \A e \in toolRuns : e.id \in Ids /\ e.ticker \in 0..Len(timers)

\* no hook has been called
NoHookCall == [hook |-> "none"]

HooksInit ==
    /\ toolUsageLog = <<>>
    /\ performanceMetrics = {}
    /\ hookIn = NoHookCall
    /\ hookOut = [continue |-> FALSE, decision |-> "<undefined>", lines |-> <<>>]

\* printWithDelay has not been called
TypewriterIdle ==
    typewriter = [text |-> <<>>, i |-> 0, interval |-> "none", stdout |-> <<>>,
                  ticks |-> 0, clears |-> 0, resolved |-> 0]

\* the state of run() when the for-await loop is entered
TrackerInit ==
    /\ pc = "await"
    /\ toolRuns = {}
    /\ timers = <<>>
    /\ now = 0
    /\ allocs = 0
    /\ emitted = <<>>
    /\ returned = <<>>
    /\ ev = Event("init", "")

Init ==
    /\ TrackerInit
    /\ transcript = [recording |-> FALSE, steps |-> <<>>]
    /\ payload = VUndef
    /\ outcome = NoOutcome
    /\ HooksInit
    /\ TypewriterIdle


(***************************************************************************)
(* Inputs: the messages the runtime may yield.                             *)
(***************************************************************************)
\* input.description ?? input.prompt: absent, a string of some length, or a
\* value that is not a string
Contexts ==
    {[t |-> "undefined", len |-> 0], [t |-> "string", len |-> 120],
     [t |-> "number", len |-> 0]}

\* the context is read only on the delegation path
ToolUseBlocks ==
    {b \in [id : Ids \cup {Undefined}, subagent_type : SubagentTypes \cup {Undefined},
            name : ToolNames, context : Contexts] :
        (b.subagent_type = Undefined \/ b.id = Undefined) => b.context.t = "undefined"}

Payloads == {VUndef, VArr(<<VStr(<<"a">>), VObj(VStr(<<"b">>))>>)}

ToolResultBlocks == [content : Payloads, tool_use_id : Ids \cup {Undefined}]

\* event.type, split after the prefix 'tool_result'
EventTypes == {<<"tool_result">>, <<"tool_result", "_delta">>, <<"content_block_delta">>}

\* eventType.startsWith('tool_result')
StartsWithToolResult(type) == Len(type) >= 1 /\ type[1] = "tool_result"

\* event.delta: absent, or an object with the fields text, output, content
NoDelta == [present |-> FALSE, text |-> VUndef, output |-> VUndef, content |-> VUndef]
Delta(text, output, content) ==
    [present |-> TRUE, text |-> text, output |-> output, content |-> content]

\* the pairs <<event.delta, event.output_text_delta>> of the model; the second
\* is absent, or an object whose text is a string or a number
DeltaPairs ==
    {<<NoDelta, VUndef>>,
     <<Delta(VStr(<<"a", " ">>), VUndef, VUndef), VUndef>>,
     <<NoDelta, VObj(VNum(<<"7">>))>>}

\* the payload is read only when the type starts with 'tool_result'
StreamEvents ==
    {e \in {[type |-> ty, tool_use_id |-> id, delta |-> d[1], output_text_delta |-> d[2]] :
                ty \in EventTypes, id \in Ids \cup {Undefined}, d \in DeltaPairs} :
        ~StartsWithToolResult(e.type) => (e.delta = NoDelta /\ e.output_text_delta = VUndef
                                          /\ e.tool_use_id = Undefined)}

\* total_cost_usd in units of 10^-5 dollars; -1 when the field is missing
ResultMessages == [duration_ms : {1200}, total_cost_usd : {3416, -1}]

\* (x).toFixed(4) of a cost given in 10^-5 dollars, in units of 10^-4 dollars
ToFixed4(c) == (c + 5) \div 10

(***************************************************************************)
(* The body of `for (const block of message.message.content)`, one step    *)
(* per block.  The blocks of one message are handled back to back; that is *)
(* the behaviour in which no callback and no clock advance falls between   *)
(* the steps.                                                              *)
(***************************************************************************)

\* block.type === 'text'
TextBlock ==
    /\ pc = "await"
    /\ pc' = "await"
    /\ emitted' = <<Line("text", "", <<>>, 0, "", 0)>>
    /\ ev' = Event("text", "")
    /\ UNCHANGED <<toolRuns, timers, now, allocs, returned>>
    /\ transcript' = Transcript(transcript, ev', emitted')
    /\ UNCHANGED otherVars

\* ` — ${context.slice(0, 90)}${context.length > 90 ? '…' : ''}` or ''
ContextSuffix(context) ==
    IF context.t = "string" /\ context.len > 0
    THEN [shown |-> IF context.len > ContextLimit THEN ContextLimit ELSE context.len,
          ellipsis |-> context.len > ContextLimit]
    ELSE [shown |-> 0, ellipsis |-> FALSE]

\* a registration that always stores the tool name
StoredLabelAlwaysName(b) == b.name

\* the label of the entry that toolRuns.set registers for the block
StoredLabel(b) ==
    IF b.subagent_type # Undefined /\ b.id # Undefined THEN b.subagent_type ELSE b.name

\* block.type === 'tool_use'
ToolUseBlock(b) ==
    /\ pc = "await"
    /\ b.id # Undefined => allocs < MaxAllocs
    /\ now' = now
    /\ ev' = Event("tool_use", b.id)
    /\ IF b.subagent_type # Undefined /\ b.id # Undefined
       THEN LET entry == [id |-> b.id, label |-> StoredLabel(b), start |-> now,
                          ticker |-> 0, obj |-> allocs + 1]
                runs1 == MapSet(toolRuns, entry)
                suffix == ContextSuffix(b.context)
                r == startTicker(runs1, timers, b.id, StoredLabel(b), now)
            IN /\ allocs' = allocs + 1
               /\ returned' = Append(returned, 0)
               /\ IF b.context.t = "number"
                  THEN \* context.slice is not a function
                       /\ toolRuns' = runs1
                       /\ timers' = timers
                       /\ emitted' = <<ErrorLine>>
                       /\ pc' = "exited"
                  ELSE /\ toolRuns' = r.runs
                       /\ timers' = r.timers
                       /\ emitted' = <<Line("delegating", b.subagent_type,
                                            IF suffix.ellipsis THEN <<"...">> ELSE <<>>,
                                            suffix.shown, "", 0)>>
                       /\ pc' = "await"
       ELSE /\ IF b.id # Undefined
               THEN /\ toolRuns' = MapSet(toolRuns, [id |-> b.id, label |-> StoredLabel(b),
                                                     start |-> now, ticker |-> 0,
                                                     obj |-> allocs + 1])
                    /\ allocs' = allocs + 1
                    /\ returned' = Append(returned, 0)
               ELSE UNCHANGED <<toolRuns, allocs, returned>>
            /\ timers' = timers
            /\ emitted' = <<Line("tool", b.name, <<>>, 0, "", 0)>>
            /\ pc' = "await"
    /\ transcript' = Transcript(transcript, ev', emitted')
    /\ UNCHANGED otherVars

\* extractText(content ?? '')
Summary(content) ==
    extractText(IF content.t \in {"undefined", "null"} THEN VStr(<<>>) ELSE content)

\* `if (summary) console.log(...)` with the label looked up in the registry
ResultLines(runs, toolUseId, content) ==
    IF Summary(content) # <<>>
    THEN <<Line("result", LabelOrFallback(runs, toolUseId), Summary(content), 0, "", 0)>>
    ELSE <<>>

\* any other block: read as { content, tool_use_id }
ToolResultBlock(b) ==
    /\ pc = "await"
    /\ LET toolUseId == b.tool_use_id
           resultLines == ResultLines(toolRuns, toolUseId, b.content)
           r == IF toolUseId # Undefined
                THEN finishTicker(toolRuns, timers, toolUseId, LabelOf(toolRuns, toolUseId), now)
                ELSE [runs |-> toolRuns, timers |-> timers, lines |-> <<>>]
       IN /\ toolRuns' = r.runs
          /\ timers' = r.timers
          /\ emitted' = resultLines \o r.lines
          /\ returned' = CountReturned(r.lines, returned)
    /\ pc' = "await"
    /\ ev' = Event("tool_result", b.tool_use_id)
    /\ UNCHANGED <<now, allocs>>
    /\ transcript' = Transcript(transcript, ev', emitted')
    /\ UNCHANGED otherVars

(***************************************************************************)
(* message.type === 'stream_event'                                         *)
(***************************************************************************)
\* a chain that skips the branch `typeof delta.text === 'string'`
DeltaProgressSkipsText(delta) ==
    IF ~delta.present THEN VStr(<<>>)
    ELSE IF delta.output.t = "string" THEN delta.output
    ELSE IF delta.output.t = "array" THEN VStr(extractText(delta.output))
    ELSE IF delta.content.t = "array" THEN VStr(extractText(delta.content))
    ELSE VStr(<<>>)

\* a chain that reads only delta.output and delta.content when they are arrays
DeltaProgressArraysOnly(delta) ==
    IF ~delta.present THEN VStr(<<>>)
    ELSE IF delta.output.t = "array" THEN VStr(extractText(delta.output))
    ELSE IF delta.content.t = "array" THEN VStr(extractText(delta.content))
    ELSE VStr(<<>>)

\* the if / else-if chain over delta
DeltaProgress(delta) ==
    IF ~delta.present THEN VStr(<<>>)
    ELSE IF delta.text.t = "string" THEN delta.text
    ELSE IF delta.output.t = "string" THEN delta.output
    ELSE IF delta.output.t = "array" THEN VStr(extractText(delta.output))
    ELSE IF delta.content.t = "array" THEN VStr(extractText(delta.content))
    ELSE VStr(<<>>)

\* a value is truthy unless it is undefined, null or the empty string
Truthy(v) == ~(v.t \in {"undefined", "null"}) /\ ~(v.t = "string" /\ v.s = <<>>)

\* progress after `if (!progress && outputTextDelta?.text)`
Progress(e) ==
    LET p == DeltaProgress(e.delta)
    IN IF p.s = <<>> /\ e.output_text_delta.t = "object" /\ Truthy(e.output_text_delta.text)
       THEN e.output_text_delta.text
       ELSE p

\* `if (progress.trim()) console.log(...)` for a progress that is a string
UpdateLines(label, progress) ==
    IF Trim(progress.s) # <<>>
    THEN <<Line("update", label, Trim(progress.s), 0, "", 0)>>
    ELSE <<>>

\* a test that never finishes from a stream event
ShouldFinishNever(toolUseId, type) == FALSE

\* a test that finishes on every type with the prefix
ShouldFinishOnPrefix(toolUseId, type) == toolUseId # Undefined /\ StartsWithToolResult(type)

\* toolUseId && eventType === 'tool_result'
ShouldFinish(toolUseId, type) == toolUseId # Undefined /\ type = <<"tool_result">>

StreamEvent(e) ==
    /\ pc = "await"
    /\ IF StartsWithToolResult(e.type)
       THEN LET toolUseId == e.tool_use_id
                label == LabelOrFallback(toolRuns, toolUseId)
                progress == Progress(e)
            IN IF progress.t # "string"
               THEN \* progress.trim is not a function
                    /\ emitted' = <<ErrorLine>>
                    /\ pc' = "exited"
                    /\ UNCHANGED <<toolRuns, timers, returned>>
               ELSE LET updateLines == UpdateLines(label, progress)
                        r == IF ShouldFinish(toolUseId, e.type)
                             THEN finishTicker(toolRuns, timers, toolUseId, label, now)
                             ELSE [runs |-> toolRuns, timers |-> timers, lines |-> <<>>]
                    IN /\ toolRuns' = r.runs
                       /\ timers' = r.timers
                       /\ emitted' = updateLines \o r.lines
                       /\ returned' = CountReturned(r.lines, returned)
                       /\ pc' = "await"
       ELSE /\ emitted' = <<>>
            /\ pc' = "await"
            /\ UNCHANGED <<toolRuns, timers, returned>>
    /\ ev' = Event(IF e.type = <<"tool_result">> THEN "stream_tool_result"
                   ELSE IF StartsWithToolResult(e.type) THEN "stream_tool_result_delta"
                   ELSE "stream_other", e.tool_use_id)
    /\ UNCHANGED <<now, allocs>>
    /\ transcript' = Transcript(transcript, ev', emitted')
    /\ UNCHANGED otherVars

(***************************************************************************)
(* message.type === 'result'                                               *)
(***************************************************************************)
\* a handler that runs the cleanup loop when the result message arrives
ResultMessageCleansUp(m) ==
    /\ pc = "await"
    /\ m.total_cost_usd >= 0
    /\ LET r == CleanupLoop(MapKeys(toolRuns), toolRuns, timers, now)
       IN /\ toolRuns' = r.runs
          /\ timers' = r.timers
          /\ emitted' = <<Line("duration", "", <<>>, m.duration_ms, "", 0),
                          Line("cost", "", <<>>, ToFixed4(m.total_cost_usd), "", 0)>>
          /\ returned' = CountReturned(r.lines, returned)
    /\ pc' = "await"
    /\ ev' = Event("result", "")
    /\ UNCHANGED <<now, allocs>>
    /\ transcript' = Transcript(transcript, ev', emitted')
    /\ UNCHANGED otherVars

\* a handler that prints the duration and forgets the cost
ResultMessageDurationOnly(m) ==
    /\ pc = "await"
    /\ emitted' = <<Line("duration", "", <<>>, m.duration_ms, "", 0)>>
    /\ pc' = "await"
    /\ ev' = Event("result", "")
    /\ UNCHANGED <<toolRuns, timers, now, allocs, returned>>
    /\ transcript' = Transcript(transcript, ev', emitted')
    /\ UNCHANGED otherVars

ResultMessage(m) ==
    /\ pc = "await"
    /\ IF m.total_cost_usd < 0
       THEN \* message.total_cost_usd.toFixed of undefined
            /\ emitted' = <<Line("duration", "", <<>>, m.duration_ms, "", 0), ErrorLine>>
            /\ pc' = "exited"
       ELSE /\ emitted' = <<Line("duration", "", <<>>, m.duration_ms, "", 0),
                            Line("cost", "", <<>>, ToFixed4(m.total_cost_usd), "", 0)>>
            /\ pc' = "await"
    /\ ev' = Event("result", "")
    /\ UNCHANGED <<toolRuns, timers, now, allocs, returned>>
    /\ transcript' = Transcript(transcript, ev', emitted')
    /\ UNCHANGED otherVars

(***************************************************************************)
(* The end of the for-await loop: cleanup loop and the closing line.       *)
(***************************************************************************)
EndOfStream ==
    /\ pc = "await"
    /\ LET r == CleanupLoop(MapKeys(toolRuns), toolRuns, timers, now)
       IN /\ toolRuns' = r.runs
          /\ timers' = r.timers
          /\ emitted' = r.lines \o <<Line("finished", "", <<>>, 0, "", 0)>>
          /\ returned' = CountReturned(r.lines, returned)
    /\ pc' = "done"
    /\ ev' = Event("end", "")
    /\ UNCHANGED <<now, allocs>>
    /\ transcript' = Transcript(transcript, ev', emitted')
    /\ UNCHANGED otherVars

\* the iterator rejects: catch, console.error, process.exit(1)
IteratorRejects ==
    /\ pc = "await"
    /\ emitted' = <<ErrorLine>>
    /\ pc' = "exited"
    /\ ev' = Event("reject", "")
    /\ UNCHANGED <<toolRuns, timers, now, allocs, returned>>
    /\ transcript' = Transcript(transcript, ev', emitted')
    /\ UNCHANGED otherVars

(***************************************************************************)
(* The event loop of the host: interval callbacks and the clock.  A        *)
(* callback runs only while run() is suspended or has returned, and the    *)
(* process lives after run() only as long as an interval is live.          *)
(***************************************************************************)
TimerFires(h) ==
    /\ pc \in {"await", "done"}
    /\ h \in LiveTimers(timers)
    /\ now >= timers[h].due
    /\ emitted' = <<Line("tick", timers[h].label, <<>>,
                         RoundSeconds(now - timers[h].start), timers[h].id, timers[h].obj)>>
    /\ timers' = [timers EXCEPT ![h].due = now + TickInterval,
                                ![h].last = RoundSeconds(now - timers[h].start)]
    /\ ev' = Event("timer", timers[h].id)
    /\ UNCHANGED <<pc, toolRuns, now, allocs, returned>>
    /\ transcript' = Transcript(transcript, ev', emitted')
    /\ UNCHANGED otherVars

AdvanceClock ==
    /\ pc = "await" \/ (pc = "done" /\ LiveTimers(timers) # {})
    /\ now < MaxClockSteps * ClockStep
    /\ now' = now + ClockStep
    /\ emitted' = <<>>
    /\ ev' = Event("clock", "")
    /\ UNCHANGED <<pc, toolRuns, timers, allocs, returned, transcript>>
    /\ UNCHANGED otherVars

Next ==
    \/ TextBlock
    \/ \E b \in ToolUseBlocks : ToolUseBlock(b)
    \/ \E b \in ToolResultBlocks : ToolResultBlock(b)
    \/ \E e \in StreamEvents : StreamEvent(e)
    \/ \E m \in ResultMessages : ResultMessage(m)
    \/ EndOfStream
    \/ IteratorRejects
    \/ \E h \in 1..MaxAllocs : TimerFires(h)
    \/ AdvanceClock

Spec == Init /\ [][Next]_vars


(***************************************************************************)
(* Properties of the delegation tracking.                                  *)
(***************************************************************************)
\* the kinds of ev that a stream event with the prefix 'tool_result' leaves
StreamKinds == {"stream_tool_result", "stream_tool_result_delta"}

KindCount(lines, kind) == Cardinality({i \in 1..Len(lines) : lines[i].kind = kind})

\* C1: No timer leak. Once the stream has ended and the cleanup loop has run,
\* the registry is empty and every interval that setInterval created has been
\* cleared, also when a correlation id was dispatched twice.
NoTimerLeak ==
    pc = "done" => (toolRuns = {} /\ \A h \in 1..Len(timers) : ~timers[h].live)

\* C2: A 'still working' line for correlation id X is written only while X has
\* an entry in the registry.
TickOnlyWhileRegistered ==
    \A i \in 1..Len(emitted) :
        emitted[i].kind = "tick" => MapHas(toolRuns, emitted[i].id)

\* C3: A completion block for a registered id writes exactly one 'returned
\* after N seconds' line, with the entry's label and N computed from the
\* entry's start, clears the entry's interval and removes the entry, with or
\* without text in the payload.
CompletionOfRegistered ==
    [][(ev'.kind = "tool_result" /\ MapHas(toolRuns, ev'.id)) =>
          LET entry == MapGet(toolRuns, ev'.id)
          IN /\ KindCount(emitted', "returned") = 1
             /\ \A i \in 1..Len(emitted') :
                   emitted'[i].kind = "returned" =>
                       /\ emitted'[i].label = entry.label
                       /\ emitted'[i].n = RoundSeconds(now - entry.start)
             /\ entry.ticker # 0 => ~timers'[entry.ticker].live
             /\ ~MapHas(toolRuns', ev'.id)]_vars

\* C3 witness: a completion block with text for a registered delegated task
\* has been handled: result line, 'returned after' line, interval cleared.
CompletionOfRegisteredSeen ==
    /\ ev.kind = "tool_result"
    /\ Len(emitted) = 2
    /\ emitted[1].kind = "result"
    /\ emitted[2].kind = "returned"
    /\ emitted[2].id = ev.id
    /\ \E h \in 1..Len(timers) : timers[h].obj = emitted[2].obj /\ ~timers[h].live
    /\ ~MapHas(toolRuns, ev.id)

\* C4 as stated: no stream event whose type starts with 'tool_result' changes
\* the registry or the live intervals.
ProgressNeverMutates ==
    [][ev'.kind \in StreamKinds =>
          (toolRuns' = toolRuns /\ LiveTimers(timers') = LiveTimers(timers))]_vars

\* C4 amended: a stream event whose type starts with 'tool_result' leaves the
\* registry and the live intervals as they were, unless its type is exactly
\* 'tool_result' and its correlation id is registered.
ProgressMutatesOnlyOnExactType ==
    [][(/\ ev'.kind \in StreamKinds
        /\ ~(ev'.kind = "stream_tool_result" /\ MapHas(toolRuns, ev'.id))) =>
           (toolRuns' = toolRuns /\ timers' = timers)]_vars

\* C4 witness: a 'tool_result_delta' event for a registered id has written its
\* update line and the task is still registered with its interval live.
DeltaForRegisteredSeen ==
    /\ ev.kind = "stream_tool_result_delta"
    /\ MapHas(toolRuns, ev.id)
    /\ MapGet(toolRuns, ev.id).ticker # 0
    /\ timers[MapGet(toolRuns, ev.id).ticker].live
    /\ Len(emitted) = 1
    /\ emitted[1].kind = "update"

\* the payload of a stream event honours the declared type of
\* output_text_delta ({ text?: string })
WellTyped(e) ==
    e.output_text_delta.t = "object" => e.output_text_delta.text.t \in {"string", "undefined"}

\* the stream events that honour the declared type
WellTypedEvents == {e \in StreamEvents : WellTyped(e)}

NoDoubleReport == \A o \in DOMAIN returned : returned[o] <= 1

\* C6 witness: the only task dispatched so far has returned, and a further
\* completion for the same id has been handled without a second line.
SecondCompletionSeen ==
    /\ allocs = 1
    /\ returned = <<1>>
    /\ ev.kind \in {"tool_result", "stream_tool_result"}
    /\ ev.id \in Ids
    /\ Len(timers) = 1
    /\ timers[1].id = ev.id
    /\ KindCount(emitted, "returned") = 0

\* C7: The cleanup at the end of the stream clears the interval of every task
\* still registered, removes every entry and writes no 'returned after' line.
CleanupSilentAndComplete ==
    [][ev'.kind = "end" =>
          /\ toolRuns' = {}
          /\ \A e \in toolRuns : e.ticker # 0 => ~timers'[e.ticker].live
          /\ KindCount(emitted', "returned") = 0]_vars

\* C7 witness: the stream has ended while the only task was registered; its
\* interval is cleared and no 'returned after' line was written for it.
CleanupSeen ==
    /\ pc = "done"
    /\ ev.kind = "end"
    /\ allocs = 1
    /\ Len(timers) = 1
    /\ ~timers[1].live
    /\ returned = <<0>>

\* C8: When the stream ends without an exception, the run is finished with no
\* interval still live, so nothing keeps the process alive.
FinishedWithoutLiveTimer == pc = "done" => LiveTimers(timers) = {}

\* C9: When the consumption of the stream is aborted by an exception, the
\* registry is emptied and the intervals are cleared before the run ends.
ReleasedOnAbort == pc = "exited" => (toolRuns = {} /\ LiveTimers(timers) = {})

\* C10: The registry holds at most one entry per correlation id, and after a
\* dispatch for an id that is already registered the single entry of that id
\* carries the label and the start time of the second dispatch.
RegistryUnique ==
    [][/\ \A e1, e2 \in toolRuns' : e1.id = e2.id => e1 = e2
       /\ (ev'.kind = "tool_use" /\ MapHas(toolRuns, ev'.id)) =>
          \A b \in ToolUseBlocks :
             (ToolUseBlock(b) /\ b.id = ev'.id) =>
                 \A e \in toolRuns' :
                     e.id = b.id =>
                         /\ e.label = (IF b.subagent_type # Undefined
                                       THEN b.subagent_type ELSE b.name)
                         /\ e.start = now
                         /\ e.obj = allocs + 1]_vars

\* C10 witness: an id was dispatched as a delegated task and, while its entry
\* was still registered, dispatched again later as a plain tool: the entry of
\* the id is the second one.
DuplicateDispatchSeen ==
    /\ ev.kind = "tool_use"
    /\ allocs = 2
    /\ Len(timers) = 1
    /\ timers[1].id = ev.id
    /\ timers[1].obj = 1
    /\ timers[1].live
    /\ MapHas(toolRuns, ev.id)
    /\ MapGet(toolRuns, ev.id).obj = 2
    /\ MapGet(toolRuns, ev.id).label = "Task"
    /\ MapGet(toolRuns, ev.id).start > timers[1].start

RegistryLifecycle ==
    /\ toolRuns = {}
    /\ [][\A id \in Ids :
            /\ (~MapHas(toolRuns, id) /\ MapHas(toolRuns', id)) =>
                   (ev'.kind = "tool_use" /\ ev'.id = id)
            /\ (MapHas(toolRuns, id) /\ MapHas(toolRuns', id)
                  /\ MapGet(toolRuns, id).obj # MapGet(toolRuns', id).obj) =>
                   (ev'.kind = "tool_use" /\ ev'.id = id)
            /\ (MapHas(toolRuns, id) /\ ~MapHas(toolRuns', id)) =>
                   \/ ev'.kind = "end"
                   \/ (ev'.kind \in {"tool_result", "stream_tool_result"} /\ ev'.id = id)]_vars

\* C12 witness: a completion has just removed one id while another id, whose
\* dispatch lies in the past, is still registered.
OtherIdStaysRegistered ==
    /\ ev.kind = "tool_result"
    /\ ev.id \in Ids
    /\ ~MapHas(toolRuns, ev.id)
    /\ \E i \in 1..Len(returned) : returned[i] = 1
    /\ \E e \in toolRuns : e.id # ev.id /\ e.start < now

\* the clock reading at the latest line of interval h
LastTickAt(h) == timers[h].due - TickInterval

\* C13: Elapsed time per correlation id. For the task registered under an id,
\* every line an interval writes for that id reports the seconds since that
\* task's dispatch (never since the previous line), so the values of
\* successive lines for the id do not decrease, and the value in the id's
\* 'returned after' line is at least the value of the latest interval line
\* written for the id since the dispatch.
ElapsedFromDispatch ==
    [][/\ ev'.kind = "timer" =>
            \A i \in 1..Len(emitted') :
                (emitted'[i].kind = "tick" /\ MapHas(toolRuns, emitted'[i].id)) =>
                    LET entry == MapGet(toolRuns, emitted'[i].id)
                    IN /\ emitted'[i].n = RoundSeconds(now - entry.start)
                       /\ \A h \in 1..Len(timers) :
                              (/\ timers[h].id = entry.id
                               /\ timers[h].last >= 0
                               /\ LastTickAt(h) > entry.start) =>
                                  emitted'[i].n >= timers[h].last
       /\ ev'.kind \in {"tool_result", "stream_tool_result", "end"} =>
            \A i \in 1..Len(emitted') :
                (emitted'[i].kind = "returned" /\ MapHas(toolRuns, emitted'[i].id)) =>
                    LET entry == MapGet(toolRuns, emitted'[i].id)
                    IN /\ emitted'[i].n = RoundSeconds(now - entry.start)
                       /\ \A h \in 1..Len(timers) :
                              (/\ timers[h].id = entry.id
                               /\ timers[h].last >= 0
                               /\ LastTickAt(h) > entry.start) =>
                                  emitted'[i].n >= timers[h].last]_vars

\* C17: Label fixed at dispatch. The label stored with a registry entry never
\* changes while that entry is registered, and every line written for a
\* registered correlation id (interval line, progress update, result line,
\* 'returned after' line) carries the label stored for that id.
LabelFixedAtDispatch ==
    [][/\ \A id \in Ids :
            (/\ MapHas(toolRuns, id) /\ MapHas(toolRuns', id)
             /\ MapGet(toolRuns, id).obj = MapGet(toolRuns', id).obj) =>
                MapGet(toolRuns', id).label = MapGet(toolRuns, id).label
       /\ (/\ ev'.kind \in {"timer", "tool_result"} \cup StreamKinds
            /\ MapHas(toolRuns, ev'.id)) =>
              \A i \in 1..Len(emitted') :
                  emitted'[i].kind \in {"tick", "update", "result", "returned"} =>
                      emitted'[i].label = MapGet(toolRuns, ev'.id).label]_vars

\* C18: Label resolution. The entry that a dispatch registers is labelled
\* with the subagent role of the dispatch payload whenever the payload
\* carries one, and with the name of the invoked tool otherwise; a line that
\* announces a delegation names that same role.
LabelResolution ==
    [][(ev'.kind = "tool_use" /\ ev'.id # Undefined) =>
          \A b \in ToolUseBlocks :
              (b.id = ev'.id /\ ToolUseBlock(b)) =>
                  /\ MapHas(toolRuns', b.id)
                  /\ MapGet(toolRuns', b.id).label =
                         IF b.subagent_type # Undefined THEN b.subagent_type ELSE b.name
                  /\ \A i \in 1..Len(emitted') :
                         emitted'[i].kind = "delegating" =>
                             emitted'[i].label = MapGet(toolRuns', b.id).label]_vars

\* C18 witness: a dispatch has just registered an entry under a tool name
\* next to an entry registered under a subagent role.
BothLabelSourcesSeen ==
    /\ ev.kind = "tool_use"
    /\ MapHas(toolRuns, ev.id)
    /\ MapGet(toolRuns, ev.id).label \in ToolNames
    /\ \E e \in toolRuns : e.label \in SubagentTypes

\* C21: The tracker never raises. Whatever the events of the stream, with
\* optional fields missing or of an unexpected shape, the run reaches the
\* error exit only when the stream itself fails, never from the handling of
\* an event.
NeverRaises ==
    pc = "exited" => ev.kind = "reject"

\* C23: Timer ownership. Every live interval is the ticker of exactly one
\* entry of the registry, so there are never more live intervals than
\* registered tasks; the interval of an entry that a second dispatch of the
\* same id overwrites is cleared.
TimerOwnership ==
    /\ \A h \in LiveTimers(timers) :
           Cardinality({e \in toolRuns : e.ticker = h}) = 1
    /\ Cardinality(LiveTimers(timers)) <= Cardinality(toolRuns)

\* C24: Isolation of concurrent tasks. A step that handles a dispatch, a
\* progress event or a completion for one correlation id leaves the entry of
\* every other registered id as it was (label, start, ticker), and leaves
\* that entry's interval as it was; tasks complete in any order.
IsolationOfTasks ==
    [][ev'.kind \in {"tool_use", "tool_result"} \cup StreamKinds =>
          \A e \in toolRuns :
              e.id # ev'.id =>
                  /\ e \in toolRuns'
                  /\ e.ticker # 0 => timers'[e.ticker] = timers[e.ticker]]_vars

\* C24 witness: of two delegations the one dispatched first has just been
\* completed while the one dispatched second is still registered with its
\* interval live.
CompletedOutOfOrder ==
    /\ ev.kind \in {"tool_result", "stream_tool_result"}
    /\ \E i \in 1..Len(emitted) : emitted[i].kind = "returned" /\ emitted[i].obj = 1
    /\ \E e \in toolRuns : /\ e.obj = 2 /\ e.id # ev.id
                           /\ e.ticker # 0 /\ timers[e.ticker].live

(***************************************************************************)
(* A recorded run: run() over a stream whose messages concern one          *)
(* delegation to the subagent 'coder', with every line written kept in the *)
(* transcript in the order of writing.                                     *)
(***************************************************************************)
FiftyDone == <<"5", "0", "%", " ", "d", "o", "n", "e">>

BuildFinished == <<"b", "u", "i", "l", "d", " ", "f", "i", "n", "i", "s", "h", "e", "d">>

RecToolUseBlocks ==
    {[id |-> "t1", subagent_type |-> "coder", name |-> "Task",
      context |-> [t |-> "undefined", len |-> 0]]}

\* a progress event with text, and the stream event of type 'tool_result'
RecStreamEvents ==
    {[type |-> <<"tool_result", "_delta">>, tool_use_id |-> "t1",
      delta |-> Delta(VStr(FiftyDone), VUndef, VUndef), output_text_delta |-> VUndef],
     [type |-> <<"tool_result">>, tool_use_id |-> "t1",
      delta |-> NoDelta, output_text_delta |-> VUndef]}

RecToolResultBlocks == {[content |-> VStr(BuildFinished), tool_use_id |-> "t1"]}

\* total_cost_usd 0.0341, and a message without the field
RecResultMessages == [duration_ms : {1200}, total_cost_usd : {3410, -1}]

InitRec ==
    /\ TrackerInit
    /\ transcript = [recording |-> TRUE, steps |-> <<>>]
    /\ payload = VUndef
    /\ outcome = NoOutcome
    /\ HooksInit
    /\ TypewriterIdle

NextRec ==
    /\ Len(transcript.steps) < MaxRecorded
    /\ \/ TextBlock
       \/ \E b \in RecToolUseBlocks : ToolUseBlock(b)
       \/ \E b \in RecToolResultBlocks : ToolResultBlock(b)
       \/ \E e \in RecStreamEvents : StreamEvent(e)
       \/ \E m \in RecResultMessages : ResultMessage(m)
       \/ EndOfStream
       \/ IteratorRejects
       \/ \E h \in 1..MaxAllocs : TimerFires(h)
       \/ AdvanceClock

SpecRec == InitRec /\ [][NextRec]_vars

\* the events of the recorded steps, and all lines written, in order
EventsOf(steps) == [i \in 1..Len(steps) |-> steps[i].ev]

LinesOf(steps) ==
    LET upto[k \in 0..Len(steps)] ==
            IF k = 0 THEN <<>> ELSE upto[k - 1] \o steps[k].lines
    IN upto[Len(steps)]

\* C19: End-to-end ordering. The stream dispatch(t1, role coder),
\* progress(t1, {text: '50% done'}), completion(t1, 'build finished'),
\* result(duration 1200, cost 0.0341), end of stream writes, in this order:
\* a delegation line naming coder, a progress line with '50% done', a result
\* line with 'build finished' followed by the 'returned after' line of coder
\* with an elapsed value of at least 0, the duration 1200 and the cost
\* 0.0341, and the closing line; afterwards the registry is empty and no
\* interval is live.
EndToEndOrdering ==
    (/\ transcript.recording
     /\ EventsOf(transcript.steps) =
            <<Event("tool_use", "t1"), Event("stream_tool_result_delta", "t1"),
              Event("tool_result", "t1"), Event("result", ""), Event("end", "")>>) =>
        LET out == LinesOf(transcript.steps)
        IN /\ [i \in 1..Len(out) |-> out[i].kind] =
                  <<"delegating", "update", "result", "returned", "duration", "cost",
                    "finished">>
           /\ out[1].label = "coder"
           /\ out[2].label = "coder" /\ out[2].text = FiftyDone
           /\ out[3].label = "coder" /\ out[3].text = BuildFinished
           /\ out[4].label = "coder" /\ out[4].n >= 0
           /\ out[4].n <= RoundSeconds(now)
           /\ out[5].n = 1200
           /\ out[6].n = 341
           /\ toolRuns = {}
           /\ LiveTimers(timers) = {}

\* C19 witness: the five events have been handled in that order, the last
\* after the clock has advanced.
ScenarioPlayed ==
    /\ transcript.recording
    /\ pc = "done"
    /\ now > 0
    /\ EventsOf(transcript.steps) =
           <<Event("tool_use", "t1"), Event("stream_tool_result_delta", "t1"),
             Event("tool_result", "t1"), Event("result", ""), Event("end", "")>>

\* C20 (as stated): a run that has returned has written the duration and the
\* cost exactly once.
StatsExactlyOncePerRun ==
    (transcript.recording /\ pc = "done") =>
        /\ KindCount(LinesOf(transcript.steps), "duration") = 1
        /\ KindCount(LinesOf(transcript.steps), "cost") = 1

\* C20 (amended): the duration and the cost are written once for each result
\* message, in the step that handles it, the duration first, and by no other
\* step; a result message without a cost writes the duration and then ends
\* the run with an error.
StatsOncePerResultMessage ==
    transcript.recording =>
        \A i \in 1..Len(transcript.steps) :
            LET step == transcript.steps[i]
            IN IF step.ev.kind = "result"
               THEN /\ Len(step.lines) = 2
                    /\ step.lines[1].kind = "duration"
                    /\ step.lines[2].kind \in {"cost", "error"}
                    /\ step.lines[2].kind = "error" =>
                           (i = Len(transcript.steps) /\ pc = "exited")
               ELSE /\ KindCount(step.lines, "duration") = 0
                    /\ KindCount(step.lines, "cost") = 0

\* C20 witness: a run that handled two result messages and a completion has
\* returned with the statistics written twice.
TwoResultMessagesSeen ==
    /\ transcript.recording
    /\ pc = "done"
    /\ KindCount(LinesOf(transcript.steps), "cost") = 2
    /\ KindCount(LinesOf(transcript.steps), "returned") = 1

\* whether t1 is registered after the first k recorded steps, read off the
\* events alone: a dispatch not followed by a completion block, a stream
\* event of type 'tool_result' or the end of the stream
RegisteredAfter(steps, k) ==
    \E i \in 1..k :
        /\ steps[i].ev = Event("tool_use", "t1")
        /\ \A j \in (i + 1)..k :
               steps[j].ev.kind \notin {"tool_result", "stream_tool_result", "end"}

\* C25: Stream-level completion. A stream event of type 'tool_result' for a
\* registered id finishes the task: it writes the 'returned after' line under
\* the task's label, clears the task's interval and removes the entry. A
\* stream event whose type only starts with 'tool_result' writes nothing but
\* a progress line and leaves the registry as it was, so that the registry
\* is at every moment what the dispatches, completions and events of type
\* 'tool_result' so far make it.
StreamLevelCompletion ==
    transcript.recording =>
        LET steps == transcript.steps
        IN /\ MapHas(toolRuns, "t1") <=> RegisteredAfter(steps, Len(steps))
           /\ \A i \in 1..Len(steps) :
                  /\ steps[i].ev.kind = "stream_tool_result" =>
                         /\ KindCount(steps[i].lines, "returned") =
                                IF RegisteredAfter(steps, i - 1) THEN 1 ELSE 0
                         /\ \A k \in 1..Len(steps[i].lines) :
                                /\ steps[i].lines[k].kind = "returned"
                                /\ steps[i].lines[k].label = "coder"
                                /\ i = Len(steps) =>
                                       \A h \in 1..Len(timers) :
                                           timers[h].obj = steps[i].lines[k].obj =>
                                               ~timers[h].live
                  /\ steps[i].ev.kind = "stream_tool_result_delta" =>
                         \A k \in 1..Len(steps[i].lines) :
                             steps[i].lines[k].kind = "update"

\* C25 witness: after a dispatch and a progress event that left the task
\* registered, a stream event of type 'tool_result' has just finished it.
FinishedByStreamEvent ==
    /\ transcript.recording
    /\ ev.kind = "stream_tool_result"
    /\ KindCount(emitted, "returned") = 1
    /\ ~MapHas(toolRuns, "t1")
    /\ \E i \in 1..Len(transcript.steps) :
          /\ transcript.steps[i].ev.kind = "stream_tool_result_delta"
          /\ RegisteredAfter(transcript.steps, i - 1)
          /\ RegisteredAfter(transcript.steps, i)

\* the recorded events are a dispatch of t1 followed by the two given kinds
TwoCompletions(first, second) ==
    EventsOf(transcript.steps) =
        <<Event("tool_use", "t1"), Event(first, "t1"), Event(second, "t1")>>

\* the result lines written in the recorded steps
ResultLinesWritten ==
    SelectSeq(LinesOf(transcript.steps), LAMBDA l : l.kind = "result")

\* C26 (as stated): the result text of a dispatched task is written under the
\* label given at dispatch whether the stream event of type 'tool_result'
\* for its id is handled before or after the completion block for the id.
AttributionInEitherOrder ==
    (/\ transcript.recording
     /\ \/ TwoCompletions("tool_result", "stream_tool_result")
        \/ TwoCompletions("stream_tool_result", "tool_result")) =>
        /\ Len(ResultLinesWritten) = 1
        /\ ResultLinesWritten[1].label = "coder"

\* C26 (amended): the result text is written under the label given at
\* dispatch when the completion block is handled first; when the stream event
\* of type 'tool_result' is handled first it finishes the task, and the
\* result text of the block that follows is written under the fallback
\* label. In both orders the text is written once and the task is reported
\* as returned once, under the label given at dispatch.
AttributionFollowsRegistration ==
    transcript.recording =>
        /\ TwoCompletions("tool_result", "stream_tool_result") =>
               /\ Len(ResultLinesWritten) = 1
               /\ ResultLinesWritten[1].label = "coder"
               /\ ResultLinesWritten[1].text = BuildFinished
        /\ TwoCompletions("stream_tool_result", "tool_result") =>
               /\ Len(ResultLinesWritten) = 1
               /\ ResultLinesWritten[1].label = FallbackLabel
               /\ ResultLinesWritten[1].text = BuildFinished
        /\ (\/ TwoCompletions("tool_result", "stream_tool_result")
            \/ TwoCompletions("stream_tool_result", "tool_result")) =>
               /\ KindCount(LinesOf(transcript.steps), "returned") = 1
               /\ \A k \in 1..Len(LinesOf(transcript.steps)) :
                      LinesOf(transcript.steps)[k].kind = "returned" =>
                          LinesOf(transcript.steps)[k].label = "coder"

\* C26 witness: the stream event of type 'tool_result' was handled before the
\* completion block of the same id.
StreamEventBeforeBlock ==
    /\ transcript.recording
    /\ TwoCompletions("stream_tool_result", "tool_result")
    /\ Len(emitted) = 1 /\ emitted[1].kind = "result"

\* C27: Cleanup belongs to the end of the stream. A result message writes no
\* 'returned after' line and no closing line and leaves the run consuming the
\* stream; a task registered when a result message was handled stays
\* registered with its interval live until its completion or the end of the
\* stream; a dispatch handled after a result message registers its task; and
\* a run that has returned has an empty registry, whether or not a result
\* message was among the events.
CleanupAtEndOfStream ==
    transcript.recording =>
        LET steps == transcript.steps
        IN /\ \A i \in 1..Len(steps) :
                  steps[i].ev.kind = "result" =>
                      /\ KindCount(steps[i].lines, "returned") = 0
                      /\ KindCount(steps[i].lines, "finished") = 0
           /\ (ev.kind = "result" /\ Len(emitted) = 2 /\ emitted[2].kind = "cost") =>
                  pc = "await"
           /\ (/\ \E i \in 1..Len(steps) : steps[i].ev.kind = "result"
               /\ RegisteredAfter(steps, Len(steps))) =>
                  /\ MapHas(toolRuns, "t1")
                  /\ MapGet(toolRuns, "t1").ticker # 0
                  /\ timers[MapGet(toolRuns, "t1").ticker].live
           /\ pc = "done" =>
                  /\ toolRuns = {}
                  /\ \E i \in 1..Len(steps) :
                         /\ steps[i].ev.kind = "end"
                         /\ KindCount(steps[i].lines, "finished") = 1
                         /\ \A j \in 1..(i - 1) : steps[j].ev.kind # "end"

\* C27 witness: a task dispatched after a result message is registered and
\* its interval has just written a line.
DispatchedAfterResult ==
    /\ transcript.recording
    /\ ev.kind = "timer"
    /\ MapHas(toolRuns, "t1")
    /\ \E i \in 1..Len(transcript.steps) :
          /\ transcript.steps[i].ev.kind = "result"
          /\ ~RegisteredAfter(transcript.steps, i)
          /\ RegisteredAfter(transcript.steps, Len(transcript.steps))

(***************************************************************************)
(* The normalisation of payloads on its own: one payload is drawn, then    *)
(* read once as the content of a completion block and once as the delta of *)
(* a progress event, both for a correlation id that is not registered.     *)
(***************************************************************************)
Chars == {"a", " "}

Strs == UNION {[1..k -> Chars] : k \in 0..MaxStrLen}

\* the entries of a sequence: strings, objects with a text field, and values
\* the callback does not recognise
Items ==
    {VStr(str) : str \in Strs} \cup {VObj(VStr(str)) : str \in Strs}
    \cup {VObj(VNum(<<"4", "2">>)), VObj(VNull), VNum(<<"4", "2">>), VNull, VBare}

Hello == <<"h", "e", "l", "l", "o">>

Examples ==
    {VStr(Hello), VObj(VStr(Hello)),
     VArr(<<VStr(<<"a">>), VObj(VStr(<<"b">>)), VStr(<<"c">>)>>),
     VArr(<<VStr(<<"a">>), VNum(<<"4", "2">>), VStr(<<"c">>)>>),
     VArr(<<VStr(<<"a">>), VStr(<<"c">>)>>)}

Contents ==
    Items \cup {VUndef} \cup Examples
    \cup {VArr(items) : items \in UNION {[1..k -> Items] : k \in 0..MaxItems}}

\* the value as the code reads it under the name delta: `if (delta)` and the
\* properties text, output and content, which only an object can carry
AsDelta(v) ==
    IF v.t = "object" THEN Delta(v.text, VUndef, VUndef)
    ELSE IF Truthy(v) THEN Delta(VUndef, VUndef, VUndef)
    ELSE NoDelta

ProgressEventOf(v) ==
    [type |-> <<"tool_result", "_delta">>, tool_use_id |-> Undefined,
     delta |-> AsDelta(v), output_text_delta |-> VUndef]

InitText ==
    /\ TrackerInit
    /\ transcript = [recording |-> FALSE, steps |-> <<>>]
    /\ payload \in Contents
    /\ outcome = NoOutcome
    /\ HooksInit
    /\ TypewriterIdle

Normalise ==
    /\ ~outcome.done
    /\ outcome' = [done |-> TRUE,
                   summary |-> Summary(payload),
                   resultLines |-> ResultLines(toolRuns, Undefined, payload),
                   progress |-> Trim(Progress(ProgressEventOf(payload)).s),
                   updateLines |-> UpdateLines(LabelOrFallback(toolRuns, Undefined),
                                               Progress(ProgressEventOf(payload)))]
    /\ UNCHANGED <<trackerVars, payload, hookVars, typeVars>>

NextText == Normalise

SpecText == InitText /\ [][NextText]_vars

(***************************************************************************)
(* Properties of the normalisation.                                        *)
(***************************************************************************)
\* str without its leading and trailing spaces, by positions
Stripped(str) ==
    LET solid == {i \in 1..Len(str) : ~IsSpace(str[i])}
    IN IF solid = {} THEN <<>>
       ELSE SubSeq(str, CHOOSE i \in solid : \A j \in solid : i <= j,
                        CHOOSE i \in solid : \A j \in solid : i >= j)

\* the parts in order with one space between neighbours
SingleSpaced(parts) ==
    LET upto[k \in 0..Len(parts)] ==
            IF k = 0 THEN <<>>
            ELSE IF k = 1 THEN parts[1]
            ELSE upto[k - 1] \o <<" ">> \o parts[k]
    IN upto[Len(parts)]

\* strings and objects with a text field are the entries the callback reads
Recognized(entry) == entry.t \in {"string", "object"}

\* the text of a recognized entry: String(text ?? '') for an object
TextOf(entry) ==
    IF entry.t = "string" THEN entry.s
    ELSE IF entry.text.t \in {"string", "number"} THEN entry.text.s
    ELSE <<>>

\* C14: Normalisation shapes. A bare string normalises to itself trimmed, an
\* object with a text field to that text trimmed, a sequence of strings and
\* text objects to their texts joined with single spaces and trimmed
\* ("hello" and {text: "hello"} to "hello", ["a", {text: "b"}, "c"] to
\* "a b c"); an empty sequence and a sequence of unrecognized entries only
\* normalise to the empty string; and an empty normalised text writes no line.
NormalisationShapes ==
    outcome.done =>
        /\ payload.t = "string" => outcome.summary = Stripped(payload.s)
        /\ payload.t = "object" => outcome.summary = Stripped(TextOf(payload))
        /\ (payload.t = "array" /\ \A i \in 1..Len(payload.items) : Recognized(payload.items[i])) =>
               outcome.summary =
                   Stripped(SingleSpaced([i \in 1..Len(payload.items) |-> TextOf(payload.items[i])]))
        /\ (payload.t = "array" /\ \A i \in 1..Len(payload.items) : ~Recognized(payload.items[i])) =>
               outcome.summary = <<>>
        /\ payload = VStr(Hello) => outcome.summary = Hello
        /\ payload = VObj(VStr(Hello)) => outcome.summary = Hello
        /\ payload = VArr(<<VStr(<<"a">>), VObj(VStr(<<"b">>)), VStr(<<"c">>)>>) =>
               outcome.summary = <<"a", " ", "b", " ", "c">>
        /\ (outcome.summary = <<>>) <=> (outcome.resultLines = <<>>)
        /\ \A i \in 1..Len(outcome.resultLines) : outcome.resultLines[i].text = outcome.summary
        /\ outcome.progress = <<>> => outcome.updateLines = <<>>

\* C14 witness: the sequence of a string, a text object and a string has been
\* normalised to one line of three texts.
MixedSequenceNormalised ==
    /\ outcome.done
    /\ payload = VArr(<<VStr(<<"a">>), VObj(VStr(<<"b">>)), VStr(<<"c">>)>>)
    /\ Len(outcome.resultLines) = 1
    /\ outcome.resultLines[1].text = <<"a", " ", "b", " ", "c">>

\* C15: Unrecognized entries contribute nothing. A sequence normalises to the
\* same text as the sequence without its unrecognized entries, so
\* ["a", 42, "c"] normalises as ["a", "c"] does.
UnrecognizedContributeNothing ==
    (outcome.done /\ payload.t = "array") =>
        outcome.summary = Summary(VArr(SelectSeq(payload.items, Recognized)))

dangerousTools == {"send_email", "delete_database"}

\* the tools of hooksToolsServer
HookTools == {"calculate", "send_email", "delete_database"}

HookEventNames == {"PreToolUse", "PostToolUse", "SessionStart"}

\* tool_response is `unknown`: a non-empty string and the empty string
ToolResponses == {VStr(<<"o", "k">>), VStr(<<>>)}

ToolUseIDs == {"u1", "u2", Undefined}

\* tool_name and tool_response are read only for the tool events, and
\* tool_response only for PostToolUse
HookInputs ==
    {in \in [hook_event_name : HookEventNames, tool_name : HookTools,
             tool_response : ToolResponses \cup {VUndef}] :
        /\ in.hook_event_name = "PostToolUse" <=> in.tool_response # VUndef
        /\ in.hook_event_name = "SessionStart" => in.tool_name = "calculate"}

\* what the user would answer if asked; no hook reads it
UserAnswers == BOOLEAN

HookCall(hook, in, toolUseID, confirms) ==
    [hook |-> hook, input |-> in, toolUseID |-> toolUseID, confirms |-> confirms]

\* { continue: true } and { decision: 'block', systemMessage }
Continue(lines) == [continue |-> TRUE, decision |-> Undefined, lines |-> lines]
Block(lines) == [continue |-> FALSE, decision |-> "block", lines |-> lines]

\* toolUsageLog.find(entry => entry.toolName === tool_name && !entry.output):
\* the index of the first match, 0 when there is none
FindLogEntry(log, toolName) ==
    LET hits == {k \in 1..Len(log) : log[k].toolName = toolName /\ ~Truthy(log[k].output)}
    IN IF hits = {} THEN 0 ELSE CHOOSE k \in hits : \A m \in hits : k <= m

loggingHook(in) ==
    /\ hookIn' = HookCall("loggingHook", in, Undefined, FALSE)
    /\ IF in.hook_event_name = "PreToolUse"
       THEN /\ toolUsageLog' = Append(toolUsageLog,
                                      [toolName |-> in.tool_name, output |-> VUndef,
                                       timestamp |-> now])
            /\ hookOut' = Continue(<<"log_pre", "log_input">>)
       ELSE IF in.hook_event_name = "PostToolUse"
       THEN LET k == FindLogEntry(toolUsageLog, in.tool_name)
            IN /\ toolUsageLog' = IF k = 0 THEN toolUsageLog
                                  ELSE [toolUsageLog EXCEPT ![k].output = in.tool_response]
               /\ hookOut' = Continue(<<"log_post", "log_output">>)
       ELSE /\ toolUsageLog' = toolUsageLog
            /\ hookOut' = Continue(<<>>)
    /\ UNCHANGED <<performanceMetrics, now, runVars, textVars, typeVars>>

\* a hook in which the simulated answer is a refusal
ApprovedNever == FALSE

\* const approved = true
Approved == TRUE

approvalHook(in, confirms) ==
    /\ hookIn' = HookCall("approvalHook", in, Undefined, confirms)
    /\ hookOut' =
           IF in.hook_event_name = "PreToolUse" /\ in.tool_name \in dangerousTools
           THEN IF ~Approved
                THEN Block(<<"approval_required", "approval_input", "blocked">>)
                ELSE Continue(<<"approval_required", "approval_input", "approved">>)
           ELSE Continue(<<>>)
    /\ UNCHANGED <<toolUsageLog, performanceMetrics, now, runVars, textVars, typeVars>>

\* `${toolUseID}` in a template literal
IdString(toolUseID) == IF toolUseID = Undefined THEN "undefined" ELSE toolUseID

\* a key that leaves the tool-use id out
MetricKeyWithoutId(name, toolUseID) == <<name, "-", "">>

\* `${input.hook_event_name}-${toolUseID}`
MetricKey(name, toolUseID) == <<name, "-", IdString(toolUseID)>>

\* performanceMetrics.get(key): the record under the key, if any
MetricsAt(metrics, key) == {m \in metrics : m.key = key}

\* duration is -1 while the field is absent
performanceHook(in, toolUseID) ==
    /\ hookIn' = HookCall("performanceHook", in, toolUseID, FALSE)
    /\ LET key == MetricKey(in.hook_event_name, toolUseID)
           preKey == MetricKey("PreToolUse", toolUseID)
       IN IF in.hook_event_name = "PreToolUse"
          THEN /\ performanceMetrics' =
                      (performanceMetrics \ MetricsAt(performanceMetrics, key))
                      \cup {[key |-> key, start |-> now, duration |-> -1]}
               /\ hookOut' = Continue(<<>>)
          ELSE IF in.hook_event_name = "PostToolUse" /\ MetricsAt(performanceMetrics, preKey) # {}
          THEN /\ performanceMetrics' =
                      {IF m.key = preKey THEN [m EXCEPT !.duration = now - m.start] ELSE m :
                          m \in performanceMetrics}
               /\ hookOut' = Continue(<<"perf">>)
          ELSE /\ performanceMetrics' = performanceMetrics
               /\ hookOut' = Continue(<<>>)
    /\ UNCHANGED <<toolUsageLog, now, runVars, textVars, typeVars>>

\* Date.now() between two hook calls
HookClock ==
    /\ now < MaxClockSteps * ClockStep
    /\ now' = now + ClockStep
    /\ hookIn' = NoHookCall
    /\ UNCHANGED <<toolUsageLog, performanceMetrics, hookOut, runVars, textVars, typeVars>>

InitHooks ==
    /\ TrackerInit
    /\ transcript = [recording |-> FALSE, steps |-> <<>>]
    /\ payload = VUndef
    /\ outcome = NoOutcome
    /\ HooksInit
    /\ TypewriterIdle

\* PreToolUse: [approvalHook, loggingHook], PostToolUse: [loggingHook]
NextHooks ==
    \/ \E in \in HookInputs :
          /\ in.hook_event_name = "PreToolUse" => Len(toolUsageLog) < MaxLogEntries
          /\ loggingHook(in)
    \/ \E in \in HookInputs, confirms \in UserAnswers : approvalHook(in, confirms)

SpecHooks == InitHooks /\ [][NextHooks]_vars

\* PreToolUse: [performanceHook], PostToolUse: [performanceHook]
NextPerf ==
    \/ \E in \in HookInputs, id \in ToolUseIDs : performanceHook(in, id)
    \/ HookClock

SpecPerf == InitHooks /\ [][NextPerf]_vars

(***************************************************************************)
(* Claims about the hooks                                                  *)
(***************************************************************************)
\* the call just handled is approvalHook on a PreToolUse of a dangerous tool
ApprovalAsked ==
    /\ hookIn.hook = "approvalHook"
    /\ hookIn.input.hook_event_name = "PreToolUse"
    /\ hookIn.input.tool_name \in dangerousTools

OutputSet(entry) == entry.output # VUndef

\* the earliest entry of the log with the tool name and no output assigned,
\* 0 when there is none
EarliestOpen(log, toolName) ==
    LET open == {k \in 1..Len(log) : log[k].toolName = toolName /\ ~OutputSet(log[k])}
    IN IF open = {} THEN 0 ELSE CHOOSE k \in open : \A m \in open : k <= m

\* C28: a PreToolUse handled by loggingHook appends exactly one entry, a
\* PostToolUse neither adds nor removes an entry and sets the output of the
\* earliest entry with the same tool name that has no output yet, and an
\* output once set is never overwritten.
LogPairing ==
    [][hookIn'.hook = "loggingHook" =>
         LET in == hookIn'.input
         IN /\ in.hook_event_name = "PreToolUse" =>
                  /\ Len(toolUsageLog') = Len(toolUsageLog) + 1
                  /\ SubSeq(toolUsageLog', 1, Len(toolUsageLog)) = toolUsageLog
                  /\ toolUsageLog'[Len(toolUsageLog')].toolName = in.tool_name
                  /\ ~OutputSet(toolUsageLog'[Len(toolUsageLog')])
            /\ in.hook_event_name = "PostToolUse" =>
                  /\ Len(toolUsageLog') = Len(toolUsageLog)
                  /\ \A k \in 1..Len(toolUsageLog) :
                        /\ toolUsageLog'[k].toolName = toolUsageLog[k].toolName
                        /\ OutputSet(toolUsageLog[k]) =>
                              toolUsageLog'[k].output = toolUsageLog[k].output
                        /\ k = EarliestOpen(toolUsageLog, in.tool_name) =>
                              toolUsageLog'[k].output = in.tool_response
                        /\ (~OutputSet(toolUsageLog[k]) /\ k # EarliestOpen(toolUsageLog, in.tool_name)) =>
                              ~OutputSet(toolUsageLog'[k])]_vars

\* the metrics kept for a tool-use id
MetricsOf(metrics, toolUseID) == {m \in metrics : m.key[3] = IdString(toolUseID)}

\* C29: performanceHook stores a duration only on the PreToolUse metric of
\* the tool-use id of the PostToolUse it handles, and only if a PreToolUse
\* of that id was handled before; a PostToolUse of an id without one leaves
\* performanceMetrics unchanged, and no call changes the metric of another
\* id.
PerfCorrelation ==
    [][hookIn'.hook = "performanceHook" =>
         LET id == hookIn'.toolUseID
             name == hookIn'.input.hook_event_name
             own == MetricsOf(performanceMetrics, id)
             own2 == MetricsOf(performanceMetrics', id)
         IN /\ performanceMetrics \ own = performanceMetrics' \ own2
            /\ \A m \in own2 : m.key = <<"PreToolUse", "-", IdString(id)>>
            /\ Cardinality(own2) <= 1
            /\ name = "PreToolUse" =>
                  own2 = {[key |-> <<"PreToolUse", "-", IdString(id)>>,
                           start |-> now, duration |-> -1]}
            /\ (name = "PostToolUse" /\ own = {}) =>
                  performanceMetrics' = performanceMetrics /\ hookOut'.lines = <<>>
            /\ (name = "PostToolUse" /\ own # {}) =>
                  /\ \E m \in own : own2 = {[m EXCEPT !.duration = now - m.start]}
                  /\ hookOut'.lines = <<"perf">>
            /\ name \notin {"PreToolUse", "PostToolUse"} =>
                  performanceMetrics' = performanceMetrics]_vars

\* two tool uses measured, the second completed first
InterleavedMeasured ==
    /\ hookIn.hook = "performanceHook"
    /\ hookIn.input.hook_event_name = "PostToolUse"
    /\ hookIn.toolUseID = "u1"
    /\ \E m1 \in MetricsOf(performanceMetrics, "u1"), m2 \in MetricsOf(performanceMetrics, "u2") :
          /\ m1.start = 0 /\ m1.duration = ClockStep
          /\ m2.start = 0 /\ m2.duration = 0

(***************************************************************************)
(* The typewriter of the streaming example: printWithDelay writes a text   *)
(* one character per tick of an interval and resolves its promise on the   *)
(* tick after the last character.  The fields stdout, ticks, clears and    *)
(* resolved of the record are history of the current call.                 *)
(***************************************************************************)
RECURSIVE Texts(_)
\* the strings of at most n characters
Texts(n) ==
    IF n = 0 THEN {<<>>}
    ELSE Texts(n - 1) \cup {Append(t, c) : t \in {u \in Texts(n - 1) : Len(u) = n - 1}, c \in Chars}

\* text[i], undefined past the end of the string
CharAt(text, i) == IF i < Len(text) THEN text[i + 1] ELSE Undefined

\* a callback that tests i <= text.length
TickOneMore ==
    /\ typewriter.interval = "live"
    /\ IF typewriter.i <= Len(typewriter.text)
       THEN LET char == CharAt(typewriter.text, typewriter.i)
            IN typewriter' = [typewriter EXCEPT
                                 !.stdout = IF char # Undefined THEN Append(@, char) ELSE @,
                                 !.i = @ + 1,
                                 !.ticks = @ + 1]
       ELSE typewriter' = [typewriter EXCEPT
                              !.interval = "cleared",
                              !.clears = @ + 1,
                              !.resolved = @ + 1,
                              !.ticks = @ + 1]
    /\ UNCHANGED <<trackerVars, textVars, hookVars>>

\* new Promise(...): let i = 0; setInterval(callback, delay).  The caller
\* awaits the promise, so no call starts while an interval is live.
printWithDelay(text) ==
    /\ typewriter.interval # "live"
    /\ typewriter' = [text |-> text, i |-> 0, interval |-> "live", stdout |-> <<>>,
                      ticks |-> 0, clears |-> 0, resolved |-> 0]
    /\ UNCHANGED <<trackerVars, textVars, hookVars>>

\* the callback of the interval
Tick ==
    /\ typewriter.interval = "live"
    /\ IF typewriter.i < Len(typewriter.text)
       THEN LET char == CharAt(typewriter.text, typewriter.i)
            IN typewriter' = [typewriter EXCEPT
                                 !.stdout = IF char # Undefined THEN Append(@, char) ELSE @,
                                 !.i = @ + 1,
                                 !.ticks = @ + 1]
       ELSE typewriter' = [typewriter EXCEPT
                              !.interval = "cleared",
                              !.clears = @ + 1,
                              !.resolved = @ + 1,
                              !.ticks = @ + 1]
    /\ UNCHANGED <<trackerVars, textVars, hookVars>>

NextType ==
    \/ \E text \in Texts(MaxTextLen) : printWithDelay(text)
    \/ Tick

\* the event loop fires a live interval again and again
SpecType == InitHooks /\ [][NextType]_vars /\ WF_vars(Tick)

\* C30: printWithDelay writes the characters of its text in index order,
\* each exactly once, one per tick; on the tick after the last character it
\* clears its interval once and resolves, which is tick n+1 for a text of
\* length n; no tick fires after resolution, and every call resolves.
TypewriterTermination ==
    /\ [](typewriter.interval # "none" =>
             /\ typewriter.i <= Len(typewriter.text)
             /\ typewriter.stdout = SubSeq(typewriter.text, 1, typewriter.i)
             /\ typewriter.interval = "live" =>
                   /\ typewriter.ticks = typewriter.i
                   /\ typewriter.clears = 0
                   /\ typewriter.resolved = 0
             /\ typewriter.interval = "cleared" =>
                   /\ typewriter.stdout = typewriter.text
                   /\ typewriter.ticks = Len(typewriter.text) + 1
                   /\ typewriter.clears = 1
                   /\ typewriter.resolved = 1)
    /\ [][typewriter.interval = "cleared" =>
             (typewriter'.ticks = typewriter.ticks \/ typewriter'.ticks = 0)]_vars
    /\ \A text \in Texts(MaxTextLen) :
          (typewriter.interval = "live" /\ typewriter.text = text)
              ~> (typewriter.resolved = 1 /\ typewriter.text = text)

\* a text of maximal length, with a repeated character, written out and resolved
WholeTextWritten ==
    /\ typewriter.interval = "cleared"
    /\ Len(typewriter.text) = MaxTextLen
    /\ typewriter.text[1] = typewriter.text[2]
    /\ typewriter.stdout = typewriter.text
    /\ typewriter.resolved = 1

====
